---- MODULE Spec2Model ----
(***************************************************************************)
(* Model of the bulk e-mail verifier (src/v.py).                           *)
(*                                                                         *)
(* A run of verify_bulk_emails submits one verify_email task per input     *)
(* address to a thread pool and collects the results in input order.       *)
(* Every task walks the pipeline syntax check -> A lookup -> MX lookup ->  *)
(* SMTP probe; the DNS resolver and the SMTP server are the environment,   *)
(* whose answer to every network operation is chosen nondeterministically. *)
(* Strings are sequences of one-character strings.                         *)
(***************************************************************************)
EXTENDS Integers, Sequences, FiniteSets, TLC

\* ------------------------------------------------------------------ bounds
\* longest batch handed to verify_bulk_emails
MaxBatch == 2
\* largest thread pool (ThreadPoolExecutor() sizes it from the machine)
MaxWorkers == 2
\* longest string handed to a pure function on its own
MaxLen == 6

\* ------------------------------------------------------- character classes
LowerChars == {"a", "b", "c", "d", "e", "m", "o", "x"}
UpperChars == {"A", "B", "C", "D", "E", "M", "O", "X"}
DigitChars == {"0", "1"}
AlnumChars == LowerChars \cup UpperChars \cup DigitChars

\* [a-zA-Z0-9_.+-]
LocalChars == AlnumChars \cup {"_", ".", "+", "-"}
\* [a-zA-Z0-9-]
LabelChars == AlnumChars \cup {"-"}
\* [a-zA-Z0-9-.]
TailChars == AlnumChars \cup {"-", "."}

\* str.upper() on the modelled alphabet
ToUpper(c) ==
  CASE c = "a" -> "A" [] c = "b" -> "B" [] c = "c" -> "C" [] c = "d" -> "D"
    [] c = "e" -> "E" [] c = "m" -> "M" [] c = "o" -> "O" [] c = "x" -> "X"
    [] OTHER -> c

\* str.isalpha() on the modelled alphabet
IsAlpha(s) == Len(s) > 0 /\ \A k \in 1..Len(s) : s[k] \in LowerChars \cup UpperChars

AllIn(s, lo, hi, class) == \A k \in lo..hi : s[k] \in class

\* positions at which "$" may match: the end, or just before a final newline
DollarEnds(s) ==
  {Len(s)} \cup (IF Len(s) > 0 /\ s[Len(s)] = "\n" THEN {Len(s) - 1} ELSE {})

\* is_valid_email with the "^" of the pattern lost and re.search used: the
\* match may start anywhere in the string
is_valid_email_unanchored(email) ==
  \E n \in DollarEnds(email) :
    \E s \in 1..n : \E i \in 1..n : \E j \in 1..n :
      /\ email[i] = "@"
      /\ email[j] = "."
      /\ s < i /\ AllIn(email, s, i - 1, LocalChars)
      /\ i + 1 < j /\ AllIn(email, i + 1, j - 1, LabelChars)
      /\ j < n /\ AllIn(email, j + 1, n, TailChars)

\* re.match(r"^[a-zA-Z0-9_.+-]+@[a-zA-Z0-9-]+\.[a-zA-Z0-9-.]+$", email)
is_valid_email(email) ==
  \E n \in DollarEnds(email) :
    \E i \in 1..n : \E j \in 1..n :
      /\ email[i] = "@"
      /\ email[j] = "."
      /\ 1 < i /\ AllIn(email, 1, i - 1, LocalChars)
      /\ i + 1 < j /\ AllIn(email, i + 1, j - 1, LabelChars)
      /\ j < n /\ AllIn(email, j + 1, n, TailChars)

\* positions of a character in a string
Positions(s, c) == {k \in 1..Len(s) : s[k] = c}

SetMin(S) == CHOOSE x \in S : \A y \in S : x <= y
SetMax(S) == CHOOSE x \in S : \A y \in S : x >= y

IndexError == <<"IndexError">>

\* get_domain taking element 0 of the split
get_domain_local(email) ==
  LET ats == Positions(email, "@") IN
  IF ats = {} THEN email ELSE SubSeq(email, 1, SetMin(ats) - 1)

\* email.split('@')[1]: the text between the first and the second '@'
get_domain(email) ==
  LET ats == Positions(email, "@") IN
  IF ats = {} THEN IndexError
  ELSE LET first == SetMin(ats)
           rest  == {k \in ats : k > first}
           stop  == IF rest = {} THEN Len(email) ELSE SetMin(rest) - 1
       IN SubSeq(email, first + 1, stop)

\* pycountry.countries.get(alpha_2=code): the part of the table the model uses
CountryTable(code) ==
  CASE code = <<"D", "E">> -> "Germany"
    [] code = <<"E", "E">> -> "Estonia"
    [] code = <<"C", "O">> -> "Colombia"
    [] OTHER -> "None"

\* get_country_by_domain looking at parts[0] instead of parts[-1]
get_country_by_domain_first(domain) ==
  LET dots == Positions(domain, ".")
      first == IF dots = {} THEN domain
               ELSE SubSeq(domain, 1, SetMin(dots) - 1)
  IN IF dots # {} /\ IsAlpha(first) /\ Len(first) = 2
     THEN LET country == CountryTable([k \in 1..2 |-> ToUpper(first[k])])
          IN IF country # "None" THEN country ELSE "Unknown"
     ELSE "Unknown"

get_country_by_domain(domain) ==
  LET dots == Positions(domain, ".")
      last == IF dots = {} THEN domain
              ELSE SubSeq(domain, SetMax(dots) + 1, Len(domain))
  IN IF dots # {} /\ IsAlpha(last) /\ Len(last) = 2
     THEN LET country == CountryTable([k \in 1..2 |-> ToUpper(last[k])])
          IN IF country # "None" THEN country ELSE "Unknown"
     ELSE "Unknown"

\* ------------------------------------------------------------ the inputs
AddrDE  == <<"a", "@", "b", ".", "d", "e">>
AddrCom == <<"a", "@", "b", ".", "c", "o", "m">>
AddrBad == <<"a", "b">>
Addresses == {AddrDE, AddrCom, AddrBad}

\* input sequences of verify_bulk_emails
Batches == UNION {[1..n -> Addresses] : n \in 0..MaxBatch}

\* ------------------------------------------------------- the environment
\* dns.resolver.resolve: an answer, or one of the resolver's exceptions
DnsErrors == {"NXDOMAIN", "NoAnswer", "Timeout", "NoNameservers"}
DnsOutcomes == {"ok"} \cup DnsErrors
\* the exchange hosts of an MX answer, in the order the resolver returns them
MxAnswers == {<<"mx1">>, <<"mx1", "mx2">>}
\* reply codes of the SMTP server to HELO, MAIL FROM and RCPT TO
ReplyCodes == {250, 550}

\* one network operation and how it ended: out is "ok"/"reply", a resolver
\* exception, "raise" or "NoReply"; code is the reply code the program keeps
Op(op, out, kept) == [op |-> op, out |-> out, code |-> kept, arg |-> <<>>]

\* an SMTP command sent with an argument
OpTo(op, out, kept, to) == [op |-> op, out |-> out, code |-> kept, arg |-> to]

\* 'test@example.com'
Sender == <<"t", "e", "s", "t", "@", "e", "x", "a", "m", "p", "l", "e", ".", "c", "o", "m">>

\* ------------------------------------------------------------------ state
VARIABLES
  emails,   \* the argument of verify_bulk_emails
  workers,  \* number of threads of the executor
  pc,       \* per task: where verify_email stands
  ops,      \* per task: the network operations issued so far, with outcomes
  mxhost,   \* per task: mx_record in smtp_verify
  conn,     \* per task: the SMTP connection of smtp_verify
  code,     \* per task: code in smtp_verify (0 before the assignment)
  probe,    \* per task: what smtp_verify returned ("none" before it returns)
  ret,      \* per task: what verify_email returned
  bulk,     \* where verify_bulk_emails stands
  results,  \* the list built by list(executor.map(...))
  main,     \* where main stands ("none": verify_bulk_emails called on its own)
  outfile,  \* valid_emails.txt
  arg,      \* the string a pure function is applied to
  call,     \* the pure function that was applied last ("none" before)
  val       \* what it returned

vars == <<emails, workers, pc, ops, mxhost, conn, code, probe, ret, bulk, results,
          main, outfile, arg, call, val>>

Tasks == 1..Len(emails)

NoResult == <<>>
NoHost == "none"
\* valid_emails.txt before anything opened it for writing
NoFile == [written |-> FALSE, lines |-> <<>>]

Running(i) == pc[i] \notin {"queued", "cancelled", "done", "raised"}

\* no pure-function call under way
NoCall ==
  /\ arg = <<>>
  /\ call = "none"
  /\ val = <<>>

\* verify_bulk_emails(emails) has submitted one task per address
Init ==
  /\ emails \in Batches
  /\ workers \in 1..MaxWorkers
  /\ pc = [i \in 1..Len(emails) |-> "queued"]
  /\ ops = [i \in 1..Len(emails) |-> <<>>]
  /\ mxhost = [i \in 1..Len(emails) |-> NoHost]
  /\ conn = [i \in 1..Len(emails) |-> "none"]
  /\ code = [i \in 1..Len(emails) |-> 0]
  /\ probe = [i \in 1..Len(emails) |-> "none"]
  /\ ret = [i \in 1..Len(emails) |-> NoResult]
  /\ bulk = "map"
  /\ results = <<>>
  /\ main = "none"
  /\ outfile = NoFile
  /\ NoCall

\* ---------------------------------------------------------- the resolver
Return(v) == [exc |-> "None", val |-> v]
Raise(e) == [exc |-> e, val |-> FALSE]

\* domain_exists with NXDOMAIN swallowed as "exists"
domain_exists_nxdomain(out) ==
  IF out \in {"ok", "NXDOMAIN"} THEN Return(TRUE) ELSE Raise(out)

\* domain_exists: True on an answer, False on NXDOMAIN, anything else escapes
domain_exists(out) ==
  IF out = "ok" THEN Return(TRUE)
  ELSE IF out = "NXDOMAIN" THEN Return(FALSE)
  ELSE Raise(out)

\* has_mx_records with the except clause returning True
has_mx_records_noanswer(out, records) ==
  IF out = "ok" THEN Return(Len(records) > 0)
  ELSE IF out \in {"NoAnswer", "NXDOMAIN"} THEN Return(TRUE)
  ELSE Raise(out)

\* has_mx_records: len(answer) > 0, False on NoAnswer/NXDOMAIN, else escapes
has_mx_records(out, records) ==
  IF out = "ok" THEN Return(Len(records) > 0)
  ELSE IF out \in {"NoAnswer", "NXDOMAIN"} THEN Return(FALSE)
  ELSE Raise(out)

\* ------------------------------------------------------------ smtp_verify
\* smtp_verify with the comparison made whether or not a call raised
smtp_verify_result_ignore(raised, rcpt_code) == rcpt_code = 250

\* smtp_verify returning True for every reply to RCPT TO
smtp_verify_result_any(raised, rcpt_code) ==
  IF raised THEN FALSE ELSE rcpt_code >= 250

\* what the try/except of smtp_verify returns: code == 250 when every call
\* up to server.quit() came back, False as soon as one of them raised
smtp_verify_result(raised, rcpt_code) ==
  IF raised THEN FALSE ELSE rcpt_code = 250

\* verify_email reporting a failed probe as missing MX records
ProbeResult_nomx(email, ok) ==
  IF ~ok
  THEN <<email, FALSE, "No MX Records", "Unknown">>
  ELSE <<email, TRUE, "Verified", get_country_by_domain(get_domain(email))>>

\* verify_email with the accepted flag set on the failed-probe tuple
ProbeResult_flag(email, ok) ==
  IF ~ok
  THEN <<email, TRUE, "Email Not Verified", get_country_by_domain(get_domain(email))>>
  ELSE <<email, TRUE, "Verified", get_country_by_domain(get_domain(email))>>

\* verify_email after smtp_verify returned
ProbeResult(email, ok) ==
  IF ~ok
  THEN <<email, FALSE, "Email Not Verified", get_country_by_domain(get_domain(email))>>
  ELSE <<email, TRUE, "Verified", get_country_by_domain(get_domain(email))>>

\* ------------------------------------------------------------ verify_email
\* a worker thread takes the oldest queued task
Start(i) ==
  /\ pc[i] = "queued"
  /\ \A j \in 1..(i - 1) : pc[j] # "queued"
  /\ Cardinality({j \in Tasks : Running(j)}) < workers
  /\ pc' = [pc EXCEPT ![i] = "verify_email"]
  /\ UNCHANGED <<main, outfile, arg, call, val, emails, workers, ops, mxhost, conn, code, probe, ret, bulk, results>>

\* if not is_valid_email(email): return (...); domain = get_domain(email)
SyntaxCheck(i) ==
  /\ pc[i] = "verify_email"
  /\ IF ~is_valid_email(emails[i])
     THEN /\ pc' = [pc EXCEPT ![i] = "done"]
          /\ ret' = [ret EXCEPT ![i] = <<emails[i], FALSE, "Invalid Email Syntax", "Unknown">>]
     ELSE IF get_domain(emails[i]) = IndexError
     THEN /\ pc' = [pc EXCEPT ![i] = "raised"]
          /\ ret' = ret
     ELSE /\ pc' = [pc EXCEPT ![i] = "domain_exists"]
          /\ ret' = ret
  /\ UNCHANGED <<main, outfile, arg, call, val, emails, workers, ops, mxhost, conn, code, probe, bulk, results>>

\* if not domain_exists(domain): return (...)
DomainExists(i) ==
  /\ pc[i] = "domain_exists"
  /\ \E out \in DnsOutcomes :
       LET r == domain_exists(out) IN
       /\ ops' = [ops EXCEPT ![i] = Append(@, Op("A", out, 0))]
       /\ IF r.exc # "None"
          THEN /\ pc' = [pc EXCEPT ![i] = "raised"]
               /\ ret' = ret
          ELSE IF ~r.val
          THEN /\ pc' = [pc EXCEPT ![i] = "done"]
               /\ ret' = [ret EXCEPT ![i] = <<emails[i], FALSE, "Domain Does Not Exist", "Unknown">>]
          ELSE /\ pc' = [pc EXCEPT ![i] = "has_mx_records"]
               /\ ret' = ret
  /\ UNCHANGED <<main, outfile, arg, call, val, emails, workers, mxhost, conn, code, probe, bulk, results>>

\* if not has_mx_records(domain): return (...)
HasMxRecords(i) ==
  /\ pc[i] = "has_mx_records"
  /\ \E out \in DnsOutcomes : \E records \in MxAnswers :
       LET r == has_mx_records(out, records) IN
       /\ ops' = [ops EXCEPT ![i] = Append(@, Op("MX", out, 0))]
       /\ IF r.exc # "None"
          THEN /\ pc' = [pc EXCEPT ![i] = "raised"]
               /\ ret' = ret
          ELSE IF ~r.val
          THEN /\ pc' = [pc EXCEPT ![i] = "done"]
               /\ ret' = [ret EXCEPT ![i] = <<emails[i], FALSE, "No MX Records", "Unknown">>]
          ELSE /\ pc' = [pc EXCEPT ![i] = "smtp_resolve"]
               /\ ret' = ret
  /\ UNCHANGED <<main, outfile, arg, call, val, emails, workers, mxhost, conn, code, probe, bulk, results>>

\* smtp_verify returns ok to verify_email, which returns its tuple
ProbeReturns(i, ok) ==
  /\ probe' = [probe EXCEPT ![i] = IF ok THEN "True" ELSE "False"]
  /\ ret' = [ret EXCEPT ![i] = ProbeResult(emails[i], ok)]
  /\ pc' = [pc EXCEPT ![i] = "done"]

\* the network call of smtp_verify never comes back
ProbeBlocks(i) ==
  /\ pc' = [pc EXCEPT ![i] = "blocked"]
  /\ UNCHANGED <<probe, ret>>

\* the exchange of the last record of the answer
LastExchange(records) == records[Len(records)]

\* str(mx_records[0].exchange)
FirstExchange(records) == records[1]

\* domain = get_domain(email), outside the try; then
\* mx_records = dns.resolver.resolve(domain, 'MX'); mx_records[0].exchange
SmtpResolve(i) ==
  /\ pc[i] = "smtp_resolve"
  /\ IF get_domain(emails[i]) = IndexError
     THEN /\ pc' = [pc EXCEPT ![i] = "raised"]
          /\ UNCHANGED <<ops, mxhost, probe, ret>>
     ELSE \E out \in DnsOutcomes : \E records \in MxAnswers :
       /\ ops' = [ops EXCEPT ![i] = Append(@, Op("MX", out, 0))]
       /\ IF out = "ok"
          THEN /\ mxhost' = [mxhost EXCEPT ![i] = FirstExchange(records)]
               /\ pc' = [pc EXCEPT ![i] = "smtp_connect"]
               /\ UNCHANGED <<probe, ret>>
          ELSE /\ mxhost' = mxhost
               /\ ProbeReturns(i, smtp_verify_result(TRUE, code[i]))
  /\ UNCHANGED <<main, outfile, arg, call, val, emails, workers, conn, code, bulk, results>>

\* server = smtplib.SMTP(mx_record)
SmtpConnect(i) ==
  /\ pc[i] = "smtp_connect"
  /\ \E out \in {"ok", "raise", "NoReply"} :
       /\ ops' = [ops EXCEPT ![i] = Append(@, Op("CONNECT", out, 0))]
       /\ CASE out = "ok" ->
                 /\ conn' = [conn EXCEPT ![i] = "open"]
                 /\ pc' = [pc EXCEPT ![i] = "smtp_helo"]
                 /\ UNCHANGED <<probe, ret>>
            [] out = "raise" ->
                 /\ conn' = conn
                 /\ ProbeReturns(i, smtp_verify_result(TRUE, code[i]))
            [] out = "NoReply" ->
                 /\ conn' = conn
                 /\ ProbeBlocks(i)
  /\ UNCHANGED <<main, outfile, arg, call, val, emails, workers, mxhost, code, bulk, results>>

\* what a command carries: helo() nothing, mail() the fixed sender, rcpt() the
\* address under test
CommandArg(i, op) ==
  CASE op = "MAIL" -> Sender
    [] op = "RCPT" -> emails[i]
    [] OTHER -> <<>>

\* server.helo() and server.mail('test@example.com'): the reply is discarded
\* whatever its code; an exception leaves the connection as the library left
\* it and ends in the except clause
SmtpCommand(i, at, op, next) ==
  /\ pc[i] = at
  /\ \/ \E reply \in ReplyCodes :
          /\ ops' = [ops EXCEPT ![i] = Append(@, OpTo(op, "reply", 0, CommandArg(i, op)))]
          /\ pc' = [pc EXCEPT ![i] = next]
          /\ UNCHANGED <<conn, code, probe, ret>>
     \/ \E after \in {"open", "closed"} :
          /\ ops' = [ops EXCEPT ![i] = Append(@, OpTo(op, "raise", 0, CommandArg(i, op)))]
          /\ conn' = [conn EXCEPT ![i] = after]
          /\ code' = code
          /\ ProbeReturns(i, smtp_verify_result(TRUE, code[i]))
     \/ /\ ops' = [ops EXCEPT ![i] = Append(@, OpTo(op, "NoReply", 0, CommandArg(i, op)))]
        /\ UNCHANGED <<conn, code>>
        /\ ProbeBlocks(i)
  /\ UNCHANGED <<main, outfile, arg, call, val, emails, workers, mxhost, bulk, results>>

SmtpHelo(i) == SmtpCommand(i, "smtp_helo", "HELO", "smtp_mail")
SmtpMail(i) == SmtpCommand(i, "smtp_mail", "MAIL", "smtp_rcpt")

\* code, message = server.rcpt(email)
SmtpRcpt(i) ==
  /\ pc[i] = "smtp_rcpt"
  /\ \/ \E reply \in ReplyCodes :
          /\ ops' = [ops EXCEPT ![i] = Append(@, OpTo("RCPT", "reply", reply, CommandArg(i, "RCPT")))]
          /\ code' = [code EXCEPT ![i] = reply]
          /\ pc' = [pc EXCEPT ![i] = "smtp_quit"]
          /\ UNCHANGED <<conn, probe, ret>>
     \/ \E after \in {"open", "closed"} :
          /\ ops' = [ops EXCEPT ![i] = Append(@, OpTo("RCPT", "raise", 0, CommandArg(i, "RCPT")))]
          /\ conn' = [conn EXCEPT ![i] = after]
          /\ code' = code
          /\ ProbeReturns(i, smtp_verify_result(TRUE, code[i]))
     \/ /\ ops' = [ops EXCEPT ![i] = Append(@, OpTo("RCPT", "NoReply", 0, CommandArg(i, "RCPT")))]
        /\ UNCHANGED <<conn, code>>
        /\ ProbeBlocks(i)
  /\ UNCHANGED <<main, outfile, arg, call, val, emails, workers, mxhost, bulk, results>>

\* server.quit(); return code == 250
SmtpQuit(i) ==
  /\ pc[i] = "smtp_quit"
  /\ \/ /\ ops' = [ops EXCEPT ![i] = Append(@, Op("QUIT", "reply", 0))]
        /\ conn' = [conn EXCEPT ![i] = "closed"]
        /\ ProbeReturns(i, smtp_verify_result(FALSE, code[i]))
     \/ \E after \in {"open", "closed"} :
          /\ ops' = [ops EXCEPT ![i] = Append(@, Op("QUIT", "raise", 0))]
          /\ conn' = [conn EXCEPT ![i] = after]
          /\ ProbeReturns(i, smtp_verify_result(TRUE, code[i]))
     \/ /\ ops' = [ops EXCEPT ![i] = Append(@, Op("QUIT", "NoReply", 0))]
        /\ conn' = conn
        /\ ProbeBlocks(i)
  /\ UNCHANGED <<main, outfile, arg, call, val, emails, workers, mxhost, code, bulk, results>>

\* ------------------------------------------------------ verify_bulk_emails
\* list(executor.map(...)) takes the result of the next future, in input order
Collect ==
  /\ bulk = "map"
  /\ Len(results) < Len(emails)
  /\ pc[Len(results) + 1] = "done"
  /\ results' = Append(results, ret[Len(results) + 1])
  /\ UNCHANGED <<main, outfile, arg, call, val, emails, workers, pc, ops, mxhost, conn, code, probe, ret, bulk>>

\* the next future holds an exception: result() re-raises it, the iterator
\* cancels the futures that have not started
Propagate ==
  /\ bulk = "map"
  /\ Len(results) < Len(emails)
  /\ pc[Len(results) + 1] = "raised"
  /\ pc' = [i \in Tasks |-> IF pc[i] = "queued" THEN "cancelled" ELSE pc[i]]
  /\ bulk' = "unwinding"
  /\ UNCHANGED <<main, outfile, arg, call, val, emails, workers, ops, mxhost, conn, code, probe, ret, results>>

\* leaving the with block waits for the running tasks; the exception then
\* leaves verify_bulk_emails
Reraise ==
  /\ bulk = "unwinding"
  /\ \A i \in Tasks : ~Running(i)
  /\ bulk' = "raised"
  /\ UNCHANGED <<main, outfile, arg, call, val, emails, workers, pc, ops, mxhost, conn, code, probe, ret, results>>

\* return results
ReturnResults ==
  /\ bulk = "map"
  /\ Len(results) = Len(emails)
  /\ bulk' = "returned"
  /\ UNCHANGED <<main, outfile, arg, call, val, emails, workers, pc, ops, mxhost, conn, code, probe, ret, results>>

\* the steps of the worker thread that runs task i
TaskStep(i) ==
  \/ Start(i)
  \/ SyntaxCheck(i)
  \/ DomainExists(i)
  \/ HasMxRecords(i)
  \/ SmtpResolve(i)
  \/ SmtpConnect(i)
  \/ SmtpHelo(i)
  \/ SmtpMail(i)
  \/ SmtpRcpt(i)
  \/ SmtpQuit(i)

\* the steps of the thread that called verify_bulk_emails
MainStep ==
  \/ Collect
  \/ Propagate
  \/ Reraise
  \/ ReturnResults

Next ==
  \/ \E i \in Tasks : Start(i)
  \/ \E i \in Tasks : SyntaxCheck(i)
  \/ \E i \in Tasks : DomainExists(i)
  \/ \E i \in Tasks : HasMxRecords(i)
  \/ \E i \in Tasks : SmtpResolve(i)
  \/ \E i \in Tasks : SmtpConnect(i)
  \/ \E i \in Tasks : SmtpHelo(i)
  \/ \E i \in Tasks : SmtpMail(i)
  \/ \E i \in Tasks : SmtpRcpt(i)
  \/ \E i \in Tasks : SmtpQuit(i)
  \/ Collect
  \/ Propagate
  \/ Reraise
  \/ ReturnResults

Spec == Init /\ [][Next]_vars

\* every thread that can take a step eventually takes one
FairSpec ==
  /\ Spec
  /\ \A i \in 1..MaxBatch : WF_vars(i \in Tasks /\ TaskStep(i))
  /\ WF_vars(MainStep)

\* ------------------------------------------------------------------ main
\* save_valid_emails writing a line for every result
RECURSIVE save_valid_emails_all(_)
save_valid_emails_all(rs) ==
  IF rs = <<>> THEN <<>>
  ELSE <<Append(Head(rs)[1], "\n")>> \o save_valid_emails_all(Tail(rs))

\* the lines save_valid_emails writes: f"{email}\n" for each result, in
\* order, whose is_valid is true
RECURSIVE save_valid_emails(_)
save_valid_emails(rs) ==
  IF rs = <<>> THEN <<>>
  ELSE (IF Head(rs)[2] THEN <<Append(Head(rs)[1], "\n")>> ELSE <<>>)
         \o save_valid_emails(Tail(rs))

\* the program has been started; nothing is read or submitted yet
MainInit ==
  /\ emails = <<>>
  /\ workers \in 1..MaxWorkers
  /\ pc = <<>>
  /\ ops = <<>>
  /\ mxhost = <<>>
  /\ conn = <<>>
  /\ code = <<>>
  /\ probe = <<>>
  /\ ret = <<>>
  /\ bulk = "idle"
  /\ results = <<>>
  /\ main = "start"
  /\ outfile = NoFile
  /\ NoCall

\* open(input_file) succeeds: emails is the list of stripped non-blank lines,
\* and verify_bulk_emails(emails) submits one task per address
ReadInput ==
  /\ main = "start"
  /\ \E batch \in Batches :
       /\ emails' = batch
       /\ pc' = [i \in 1..Len(batch) |-> "queued"]
       /\ ops' = [i \in 1..Len(batch) |-> <<>>]
       /\ mxhost' = [i \in 1..Len(batch) |-> NoHost]
       /\ conn' = [i \in 1..Len(batch) |-> "none"]
       /\ code' = [i \in 1..Len(batch) |-> 0]
       /\ probe' = [i \in 1..Len(batch) |-> "none"]
       /\ ret' = [i \in 1..Len(batch) |-> NoResult]
  /\ bulk' = "map"
  /\ main' = "verify"
  /\ UNCHANGED <<workers, results, outfile, arg, call, val>>

\* open(input_file) raises FileNotFoundError: the message is printed
InputMissing ==
  /\ main = "start"
  /\ main' = "not_found"
  /\ UNCHANGED <<emails, workers, pc, ops, mxhost, conn, code, probe, ret,
                 bulk, results, outfile, arg, call, val>>

\* save_valid_emails(results, 'valid_emails.txt')
SaveValid ==
  /\ main = "verify"
  /\ bulk = "returned"
  /\ outfile' = [written |-> TRUE, lines |-> save_valid_emails(results)]
  /\ main' = "print"
  /\ UNCHANGED <<emails, workers, pc, ops, mxhost, conn, code, probe, ret,
                 bulk, results, arg, call, val>>

\* the loop that prints one line per result
PrintResults ==
  /\ main = "print"
  /\ main' = "done"
  /\ UNCHANGED <<emails, workers, pc, ops, mxhost, conn, code, probe, ret,
                 bulk, results, outfile, arg, call, val>>

\* verify_bulk_emails raised: the exception is no FileNotFoundError, so the
\* except clause of main does not catch it
MainRaises ==
  /\ main = "verify"
  /\ bulk = "raised"
  /\ main' = "crashed"
  /\ UNCHANGED <<emails, workers, pc, ops, mxhost, conn, code, probe, ret,
                 bulk, results, outfile, arg, call, val>>

MainNext ==
  \/ ReadInput
  \/ InputMissing
  \/ \E i \in Tasks : Start(i)
  \/ \E i \in Tasks : SyntaxCheck(i)
  \/ \E i \in Tasks : DomainExists(i)
  \/ \E i \in Tasks : HasMxRecords(i)
  \/ \E i \in Tasks : SmtpResolve(i)
  \/ \E i \in Tasks : SmtpConnect(i)
  \/ \E i \in Tasks : SmtpHelo(i)
  \/ \E i \in Tasks : SmtpMail(i)
  \/ \E i \in Tasks : SmtpRcpt(i)
  \/ \E i \in Tasks : SmtpQuit(i)
  \/ Collect
  \/ Propagate
  \/ Reraise
  \/ ReturnResults
  \/ SaveValid
  \/ PrintResults
  \/ MainRaises

MainSpec == MainInit /\ [][MainNext]_vars

\* ------------------------------------------- the pure functions on their own
\* the characters of the strings tried: a lower-case and an upper-case letter,
\* a digit, the separators, and the newline
PureChars == {"d", "E", "1", "@", ".", "-", "\n"}
Strings == UNION {[1..n -> PureChars] : n \in 0..MaxLen}

PureInit ==
  /\ arg \in Strings
  /\ call = "none"
  /\ val = <<>>
  /\ emails = <<>>
  /\ workers = 1
  /\ pc = <<>>
  /\ ops = <<>>
  /\ mxhost = <<>>
  /\ conn = <<>>
  /\ code = <<>>
  /\ probe = <<>>
  /\ ret = <<>>
  /\ bulk = "idle"
  /\ results = <<>>
  /\ main = "none"
  /\ outfile = NoFile

\* is_valid_email(email), as verify_email calls it first
CallIsValid ==
  /\ call = "none"
  /\ call' = "is_valid_email"
  /\ val' = is_valid_email(arg)
  /\ UNCHANGED <<emails, workers, pc, ops, mxhost, conn, code, probe, ret,
                 bulk, results, main, outfile, arg>>

\* domain = get_domain(email), which verify_email reaches only when
\* is_valid_email returned True
CallGetDomain ==
  /\ call = "is_valid_email"
  /\ val = TRUE
  /\ call' = "get_domain"
  /\ val' = get_domain(arg)
  /\ UNCHANGED <<emails, workers, pc, ops, mxhost, conn, code, probe, ret,
                 bulk, results, main, outfile, arg>>

\* get_country_by_domain(domain)
CallCountry ==
  /\ call = "none"
  /\ call' = "get_country_by_domain"
  /\ val' = get_country_by_domain(arg)
  /\ UNCHANGED <<emails, workers, pc, ops, mxhost, conn, code, probe, ret,
                 bulk, results, main, outfile, arg>>

PureNext ==
  \/ CallIsValid
  \/ CallGetDomain
  \/ CallCountry

PureSpec == PureInit /\ [][PureNext]_vars

\* ------------------------------------------------------------ properties
Done(i) == pc[i] = "done"

\* what is_valid_email answers for each address of the batches
SyntaxOk == [email \in Addresses |-> is_valid_email(email)]

\* the k-th network operation of task i was op and ended with an outcome in outs
OpEnded(i, k, op, outs) ==
  /\ Len(ops[i]) >= k
  /\ ops[i][k].op = op
  /\ ops[i][k].out \in outs

\* C1: verify_bulk_emails never ends by raising, and what it returns has one
\* result per input address, the i-th being the result for the i-th address
C1_OneResultPerAddress ==
  /\ bulk # "raised"
  /\ bulk = "returned" =>
       /\ Len(results) = Len(emails)
       /\ \A i \in Tasks : results[i] = ret[i] /\ results[i][1] = emails[i]

\* C2: verify_email never raises, and a task that produced its result keeps
\* it in the returned sequence whatever happened to the other tasks
C2_NoFaultEscapes ==
  /\ \A i \in Tasks : pc[i] # "raised"
  /\ \A i \in Tasks :
       Done(i) /\ bulk \in {"returned", "raised"} =>
         bulk = "returned" /\ results[i] = ret[i]

\* C3: an A lookup ending in a timeout or server failure gives the result
\* (not accepted, Domain Does Not Exist), an MX lookup ending so gives
\* (not accepted, No MX Records), and no further check is made
C3_FailClosed ==
  \A i \in Tasks :
    /\ OpEnded(i, 1, "A", {"Timeout", "NoNameservers"}) =>
         /\ Done(i) /\ Len(ops[i]) = 1
         /\ ret[i][2] = FALSE /\ ret[i][3] = "Domain Does Not Exist"
    /\ OpEnded(i, 2, "MX", {"Timeout", "NoNameservers"}) =>
         /\ Done(i) /\ Len(ops[i]) = 2
         /\ ret[i][2] = FALSE /\ ret[i][3] = "No MX Records"

\* the four checks of task i all passed
AllChecksPassed(i) ==
  /\ probe[i] = "True"
  /\ OpEnded(i, 2, "MX", {"ok"})
  /\ OpEnded(i, 1, "A", DnsOutcomes \ {"NXDOMAIN"})
  /\ SyntaxOk[emails[i]]

\* C4: in every result of verify_email, accepted holds exactly when the
\* status is Verified, and the status is Verified exactly when the syntax
\* check, the A lookup, the MX lookup and the SMTP probe all passed
C4_AcceptedIffVerified ==
  \A i \in Tasks :
    Done(i) =>
      /\ ret[i][2] = TRUE <=> ret[i][3] = "Verified"
      /\ ret[i][3] = "Verified" <=> AllChecksPassed(i)

\* a batch holding an accepted result and a result rejected by the probe
C4_Witness ==
  /\ \E i \in Tasks : Done(i) /\ ret[i][2] = TRUE /\ AllChecksPassed(i)
  /\ \E i \in Tasks : Done(i) /\ probe[i] = "False" /\ ret[i][2] = FALSE

\* the MX lookup of verify_email found no records for an existing domain
NoMxRecords(i) ==
  /\ OpEnded(i, 2, "MX", {"NoAnswer", "NXDOMAIN"})
  /\ OpEnded(i, 1, "A", {"ok"})
  /\ SyntaxOk[emails[i]]

\* C5: a valid address whose domain exists and whose MX lookup finds no
\* records never starts the probe (no second MX lookup, no connection) and
\* gets (not accepted, No MX Records, Unknown)
C5_NoMxNoProbe ==
  \A i \in Tasks :
    NoMxRecords(i) =>
      /\ Len(ops[i]) = 2
      /\ conn[i] = "none" /\ probe[i] = "none" /\ mxhost[i] = NoHost
      /\ Done(i)
      /\ ret[i] = <<emails[i], FALSE, "No MX Records", "Unknown">>

C5_Witness ==
  /\ \E i \in Tasks : NoMxRecords(i) /\ ops[i][2].out = "NoAnswer" /\ Done(i)
  /\ \E i \in Tasks : NoMxRecords(i) /\ ops[i][2].out = "NXDOMAIN" /\ Done(i)

\* C6: a valid address whose A lookup reports NXDOMAIN issues neither the
\* MX lookup nor the probe and gets (not accepted, Domain Does Not Exist,
\* Unknown); an address that fails the syntax check issues no network
\* operation at all
C6_NoDomainNoMx ==
  \A i \in Tasks :
    /\ OpEnded(i, 1, "A", {"NXDOMAIN"}) /\ SyntaxOk[emails[i]] =>
         /\ Len(ops[i]) = 1
         /\ conn[i] = "none" /\ probe[i] = "none"
         /\ Done(i)
         /\ ret[i] = <<emails[i], FALSE, "Domain Does Not Exist", "Unknown">>
    /\ ~SyntaxOk[emails[i]] =>
         /\ ops[i] = <<>>
         /\ conn[i] = "none" /\ probe[i] = "none"
         /\ Done(i) => ret[i] = <<emails[i], FALSE, "Invalid Email Syntax", "Unknown">>

C6_Witness ==
  /\ \E i \in Tasks : OpEnded(i, 1, "A", {"NXDOMAIN"}) /\ Done(i)
  /\ \E i \in Tasks : ~SyntaxOk[emails[i]] /\ Done(i)

\* the operations of smtp_verify follow the two lookups of verify_email
ProbeOps(i) == 3..Len(ops[i])

\* some step of the probe of task i failed
ProbeStepFailed(i) ==
  \E k \in ProbeOps(i) : ops[i][k].out \in DnsErrors \cup {"raise"}

\* C7: whenever a step of the probe fails (MX resolution, connection, HELO,
\* MAIL FROM, RCPT TO or QUIT), smtp_verify returns False, and no pipeline
\* that called smtp_verify ends by raising
C7_ProbeFailsClosed ==
  \A i \in Tasks :
    /\ ProbeStepFailed(i) => Done(i) /\ probe[i] = "False"
    /\ OpEnded(i, 2, "MX", {"ok"}) => pc[i] # "raised"

\* a probe that failed at QUIT after RCPT TO was answered 250, and one that
\* failed at the MX resolution
C7_Witness ==
  /\ \E i \in Tasks :
       /\ OpEnded(i, 7, "RCPT", {"reply"}) /\ code[i] = 250
       /\ OpEnded(i, 8, "QUIT", {"raise"})
       /\ probe[i] = "False"
  /\ \E i \in Tasks : OpEnded(i, 3, "MX", DnsErrors) /\ probe[i] = "False"

\* C8 as stated: smtp_verify returns True exactly when the reply to RCPT TO
\* carried code 250
C8_TrueIffRcpt250 ==
  \A i \in Tasks :
    probe[i] # "none" => (probe[i] = "True" <=> code[i] = 250)

\* C8 amended: smtp_verify returns True exactly when the reply to RCPT TO
\* carried code 250 and the QUIT that follows came back without raising
C8_TrueIffRcpt250AndQuit ==
  \A i \in Tasks :
    probe[i] # "none" =>
      (probe[i] = "True" <=> (code[i] = 250 /\ OpEnded(i, 8, "QUIT", {"reply"})))

\* an accepted probe, and a probe rejected on a reply other than 250
C8_Witness ==
  /\ \E i \in Tasks :
       probe[i] = "True" /\ code[i] = 250 /\ OpEnded(i, 8, "QUIT", {"reply"})
  /\ \E i \in Tasks :
       probe[i] = "False" /\ code[i] = 550 /\ OpEnded(i, 8, "QUIT", {"reply"})

\* C9: once smtp_verify has returned, the connection it opened is not open
C9_NoOpenConnection ==
  \A i \in Tasks : probe[i] # "none" => conn[i] # "open"

\* C10: a pipeline whose mail exchanger never responds still completes with the
\* failed-probe result, and verify_bulk_emails returns
C10_UnresponsiveCompletes ==
  \A i \in 1..MaxBatch :
    (i \in Tasks /\ pc[i] = "blocked")
      ~> (i \in Tasks /\ Done(i) /\ ret[i] = ProbeResult(emails[i], FALSE)
          /\ bulk = "returned")

\* C11: every queued pipeline is eventually taken by a worker, however many
\* other pipelines are blocked on their network peers
C11_QueuedEventuallyStarts ==
  \A i \in 1..MaxBatch :
    (i \in Tasks /\ pc[i] = "queued") ~> (i \in Tasks /\ pc[i] # "queued")

\* the positions of the accepted results, and how many accepted results
\* stand at or before position i
AcceptedAt == {i \in 1..Len(results) : results[i][2]}
Rank(i) == Cardinality({j \in AcceptedAt : j <= i})

\* C12: the file holds one line per accepted result, in result order and
\* with multiplicity, each the address followed by a newline, and nothing else
C12_SavedAreAccepted ==
  outfile.written =>
    /\ Len(outfile.lines) = Cardinality(AcceptedAt)
    /\ \A i \in AcceptedAt : outfile.lines[Rank(i)] = results[i][1] \o <<"\n">>

\* a file written from a rejected result followed by an accepted one
C12_Witness ==
  /\ outfile.written
  /\ Len(results) = 2 /\ ~results[1][2] /\ results[2][2]
  /\ outfile.lines = <<results[2][1] \o <<"\n">> >>

\* main has come to its end, normally or not
Ended == main \in {"not_found", "done", "crashed"}

\* C13: with the input file missing nothing is verified and valid_emails.txt is
\* not touched, and a run that ends without a result for every address is a
\* run whose input file was missing
C13_OnlyMissingInputAborts ==
  /\ main = "not_found" =>
       /\ emails = <<>> /\ pc = <<>> /\ ops = <<>> /\ bulk = "idle"
       /\ outfile = NoFile
  /\ Ended /\ ~(bulk = "returned" /\ Len(results) = Len(emails)) =>
       main = "not_found"

\* the last dot-separated label of s: its longest suffix without a dot
LastLabel(s) ==
  LET k == CHOOSE k \in 1..(Len(s) + 1) :
             /\ \A m \in k..Len(s) : s[m] # "."
             /\ k > 1 => s[k - 1] = "."
  IN SubSeq(s, k, Len(s))

\* the last label is two letters whose upper-case form is a code of the table
EndsInCountryCode(s) ==
  /\ Len(LastLabel(s)) = 2
  /\ \A k \in 1..2 : LastLabel(s)[k] \in LowerChars \cup UpperChars
  /\ CountryTable(<<ToUpper(LastLabel(s)[1]), ToUpper(LastLabel(s)[2])>>) # "None"

CountryOfLastLabel(s) ==
  CountryTable(<<ToUpper(LastLabel(s)[1]), ToUpper(LastLabel(s)[2])>>)

\* C14 as stated: for every string, single labels included, the result is the
\* country of the last label when that is a two-letter code of the table, and
\* "Unknown" otherwise
C14_CountryOfLastLabel ==
  call = "get_country_by_domain" =>
    val = IF EndsInCountryCode(arg) THEN CountryOfLastLabel(arg) ELSE "Unknown"

\* C14 amended: the result is the country of the last label when the string
\* holds a dot and the last label is a two-letter code of the table, and
\* "Unknown" otherwise
C14_CountryOfDottedLastLabel ==
  call = "get_country_by_domain" =>
    val = IF (\E k \in 1..Len(arg) : arg[k] = ".") /\ EndsInCountryCode(arg)
          THEN CountryOfLastLabel(arg)
          ELSE "Unknown"

\* a country found from a mixed-case last label
C14_Witness ==
  /\ call = "get_country_by_domain"
  /\ arg = <<"1", ".", "d", "E">>
  /\ val = "Germany"

\* s is local@label.tail with one '@', a non-empty local part of LocalChars, a
\* non-empty first label of LabelChars up to the first dot after the '@', and
\* a non-empty rest made of the characters of tail
HasAddressShape(s, tail) ==
  LET ats == {k \in 1..Len(s) : s[k] = "@"} IN
  /\ Cardinality(ats) = 1
  /\ LET p == CHOOSE k \in ats : TRUE
         dots == {k \in (p + 1)..Len(s) : s[k] = "."}
     IN /\ dots # {}
        /\ LET q == CHOOSE k \in dots : \A m \in dots : k <= m IN
           /\ p > 1 /\ \A k \in 1..(p - 1) : s[k] \in LocalChars
           /\ q > p + 1 /\ \A k \in (p + 1)..(q - 1) : s[k] \in LabelChars
           /\ q < Len(s) /\ \A k \in (q + 1)..Len(s) : s[k] \in tail

\* s without one final newline
Chomp(s) ==
  IF Len(s) > 0 /\ s[Len(s)] = "\n" THEN SubSeq(s, 1, Len(s) - 1) ELSE s

\* C15 as stated: is_valid_email is true exactly for the strings that are, as
\* a whole, local@label.rest with rest made of dots and alphanumerics
C15_ValidIffPattern ==
  call = "is_valid_email" =>
    (val <=> HasAddressShape(arg, AlnumChars \cup {"."}))

\* C15 amended: is_valid_email is true exactly for the strings that, after
\* dropping one final newline if there is one, are local@label.rest with rest
\* made of dots, hyphens and alphanumerics
C15_ValidIffPatternHyphenNewline ==
  call = "is_valid_email" =>
    (val <=> HasAddressShape(Chomp(arg), AlnumChars \cup {".", "-"}))

\* an accepted address with a hyphen after the first dot and a final newline
C15_Witness ==
  /\ call = "is_valid_email"
  /\ arg = <<"d", "@", "1", ".", "-", "\n">>
  /\ val = TRUE

\* C18: a string accepted by is_valid_email holds exactly one '@' and a dot
\* after it; get_domain is called in verify_email only on such a string, does
\* not raise there and returns everything after the '@'
C18_GetDomainSafe ==
  /\ is_valid_email(arg) =>
       /\ Cardinality({k \in 1..Len(arg) : arg[k] = "@"}) = 1
       /\ \E k \in 1..Len(arg) : \E m \in (k + 1)..Len(arg) :
            arg[k] = "@" /\ arg[m] = "."
  /\ call = "get_domain" =>
       /\ is_valid_email(arg)
       /\ val # IndexError
       /\ \E k \in 1..Len(arg) :
            /\ arg[k] = "@"
            /\ \A m \in 1..(k - 1) : arg[m] # "@"
            /\ val = [m \in 1..(Len(arg) - k) |-> arg[k + m]]

\* the domain of an accepted address, final newline included
C18_Witness ==
  /\ call = "get_domain"
  /\ arg = <<"d", "@", "1", ".", "E", "\n">>
  /\ val = <<"1", ".", "E", "\n">>

\* the names of the operations task i has issued, in order
OpNames(i) == [k \in 1..Len(ops[i]) |-> ops[i][k].op]

\* the operations of a pipeline that goes all the way
FullRun == <<"A", "MX", "MX", "CONNECT", "HELO", "MAIL", "RCPT", "QUIT">>

\* C16: a probe connects to the exchange of the first MX record and then
\* issues HELO, MAIL FROM test@example.com, RCPT TO the address and QUIT in
\* this order, each at most once and nothing else (no DATA)
C16_CommandOrder ==
  \A i \in Tasks :
    /\ Len(ops[i]) <= Len(FullRun)
    /\ \A k \in 1..Len(ops[i]) :
         /\ ops[i][k].op = FullRun[k]
         /\ ops[i][k].op = "MAIL" => ops[i][k].arg = Sender
         /\ ops[i][k].op = "RCPT" => ops[i][k].arg = emails[i]
         /\ ops[i][k].op \in {"HELO", "MAIL", "RCPT", "QUIT"} =>
              OpEnded(i, 4, "CONNECT", {"ok"})
    /\ Len(ops[i]) >= 4 => \A records \in MxAnswers : mxhost[i] = records[1]

\* a probe that went from the connection to QUIT
C16_Witness ==
  \E i \in Tasks :
    /\ OpNames(i) = FullRun
    /\ mxhost[i] = "mx1"
    /\ Done(i)

\* the server answered RCPT TO of task i with a code other than 250 and the
\* session was closed in order
ExplicitlyRejected(i) ==
  /\ OpEnded(i, 7, "RCPT", {"reply"}) /\ code[i] # 250
  /\ OpEnded(i, 8, "QUIT", {"reply"})

\* C17: a probe the server rejected and a probe that could not complete end
\* in different statuses, both not accepted
C17_RejectedDiffersFromFailed ==
  \A i \in Tasks : \A j \in Tasks :
    Done(i) /\ Done(j) /\ ExplicitlyRejected(i) /\ ProbeStepFailed(j) =>
      /\ ~ret[i][2] /\ ~ret[j][2]
      /\ ret[i][3] # ret[j][3]

\* the country of the addresses of the batches
ExpectedCountry(email) == IF email = AddrDE THEN "Germany" ELSE "Unknown"

\* the MX lookup of has_mx_records found records and the one of smtp_verify
\* failed
SecondLookupFailed(i) ==
  /\ OpEnded(i, 2, "MX", {"ok"})
  /\ OpEnded(i, 3, "MX", DnsErrors)

\* C19: when the first MX lookup finds records and the second one fails,
\* verify_email returns (not accepted, Email Not Verified, inferred country),
\* does not raise and opens no connection
C19_SecondLookupFails ==
  \A i \in Tasks :
    SecondLookupFailed(i) =>
      /\ Done(i)
      /\ ret[i] = <<emails[i], FALSE, "Email Not Verified", ExpectedCountry(emails[i])>>
      /\ Len(ops[i]) = 3
      /\ conn[i] = "none" /\ mxhost[i] = NoHost

\* both addresses of a batch lose their MX records between the two lookups
C19_Witness ==
  /\ \E i \in Tasks : SecondLookupFailed(i) /\ emails[i] = AddrDE /\ Done(i)
  /\ \E i \in Tasks : SecondLookupFailed(i) /\ emails[i] = AddrCom /\ Done(i)

====
